---- MODULE Spec2Model ----
(***************************************************************************)
(* TSIG generation and validation (RFC 2845), as implemented in tsig.go:   *)
(* RR_TSIG.Generate, RR_TSIG.Verify and tsigToBuf.                         *)
(*                                                                         *)
(* Byte strings are sequences of integers 0..255.  A Go string that holds  *)
(* text (the base64 secret) is the sequence of its ASCII codes.            *)
(***************************************************************************)
EXTENDS Integers, Sequences, FiniteSets, TLC

(* ------------------------------------------------------------------ *)
(* Bounds of the model                                                 *)
(* ------------------------------------------------------------------ *)
MaxExtra == 1
MaxSet == 1

(* ------------------------------------------------------------------ *)
(* Program constants                                                   *)
(* ------------------------------------------------------------------ *)
HmacMD5 == "HMAC-MD5.SIG-ALG.REG.INT"
HmacSHA1 == "hmac-sha1"
HmacSHA256 == "hmac-sha256"
TypeTSIG == 250

(* ------------------------------------------------------------------ *)
(* Fixed-width big-endian integers, as packStruct writes them          *)
(* ------------------------------------------------------------------ *)
RECURSIVE BigEndian(_, _)
BigEndian(x, n) ==
    IF n = 0 THEN << >>
    ELSE Append(BigEndian(x \div 256, n - 1), x % 256)

Uint16(x) == x % 65536

(* ------------------------------------------------------------------ *)
(* base64 (encoding/base64 StdEncoding)                                *)
(* ------------------------------------------------------------------ *)
PadChar == 61

B64Char(v) ==
    IF v < 26 THEN 65 + v
    ELSE IF v < 52 THEN 97 + (v - 26)
    ELSE IF v < 62 THEN 48 + (v - 52)
    ELSE IF v = 62 THEN 43
    ELSE 47

B64Val(c) ==
    IF c \in 65..90 THEN c - 65
    ELSE IF c \in 97..122 THEN c - 71
    ELSE IF c \in 48..57 THEN c + 4
    ELSE IF c = 43 THEN 62
    ELSE IF c = 47 THEN 63
    ELSE -1

Tail3(s) == SubSeq(s, 4, Len(s))
Tail4(s) == SubSeq(s, 5, Len(s))

RECURSIVE B64Encode(_)
B64Encode(b) ==
    IF Len(b) = 0 THEN << >>
    ELSE IF Len(b) = 1 THEN
        << B64Char(b[1] \div 4), B64Char((b[1] % 4) * 16), PadChar, PadChar >>
    ELSE IF Len(b) = 2 THEN
        << B64Char(b[1] \div 4),
           B64Char((b[1] % 4) * 16 + b[2] \div 16),
           B64Char((b[2] % 16) * 4), PadChar >>
    ELSE
        << B64Char(b[1] \div 4),
           B64Char((b[1] % 4) * 16 + b[2] \div 16),
           B64Char((b[2] % 16) * 4 + b[3] \div 64),
           B64Char(b[3] % 64) >> \o B64Encode(Tail3(b))

B64Err == [err |-> TRUE, val |-> << >>]

RECURSIVE B64Decode(_)
B64Decode(c) ==
    IF Len(c) = 0 THEN [err |-> FALSE, val |-> << >>]
    ELSE IF Len(c) < 4 THEN B64Err
    ELSE
        LET v1 == B64Val(c[1])
            v2 == B64Val(c[2])
            v3 == B64Val(c[3])
            v4 == B64Val(c[4])
            b1 == v1 * 4 + v2 \div 16
            b2 == (v2 % 16) * 16 + v3 \div 4
            b3 == (v3 % 4) * 64 + v4
        IN  IF v1 < 0 \/ v2 < 0 THEN B64Err
            ELSE IF v3 >= 0 /\ v4 >= 0 THEN
                LET rest == B64Decode(Tail4(c))
                IN  IF rest.err THEN B64Err
                    ELSE [err |-> FALSE, val |-> << b1, b2, b3 >> \o rest.val]
            ELSE IF Len(c) # 4 THEN B64Err
            ELSE IF c[3] = PadChar /\ c[4] = PadChar THEN
                [err |-> FALSE, val |-> << b1 >>]
            ELSE IF v3 >= 0 /\ c[4] = PadChar THEN
                [err |-> FALSE, val |-> << b1, b2 >>]
            ELSE B64Err

(* msg.go: unpackBase64 turns wire bytes into base64 text (it cannot     *)
(* fail: tsig.go:73 takes a single result); packBase64 turns base64 text *)
(* into wire bytes and reports malformed text (tsig.go:94).              *)
unpackBase64(b) == B64Encode(b)

packBase64(s) == B64Decode(s)

(* ------------------------------------------------------------------ *)
(* The secrets a caller may pass, as ASCII text                        *)
(* ------------------------------------------------------------------ *)
SecretEmpty == << >>
SecretA == << 65, 65, 65, 65 >>
SecretB == << 85, 86, 86, 71, 81, 108, 70, 82, 80, 84, 48, 61 >>
SecretBad == << 33, 33, 33, 33 >>

Secrets == { SecretEmpty, SecretA, SecretB, SecretBad }

ValidSecret(s) == ~B64Decode(s).err

(* ------------------------------------------------------------------ *)
(* Values the caller may put in a message and in a TSIG record         *)
(* ------------------------------------------------------------------ *)
UnknownAlg == "hmac-unknown"
KeyName == "key."

Ids == { 1000, 2000 }
Questions == { 1, 2 }
Algorithms == { HmacMD5, UnknownAlg }
Times == { 100, 101 }
Errors == { 0, 16 }
OtherDatas == { << 7 >>, << 8 >> }
InitialOther == { << 0, << >> >>, << 1, << 7 >> >> }
BufSize == 4096

RecognizedAlgorithms == { HmacMD5, HmacSHA1, HmacSHA256 }

(* An entry of Msg.Extra.  The TSIG entry is the pointer to the record  *)
(* the caller appended, so it serializes the record's current fields.   *)
ARec == [Rrtype |-> 1, Rdata |-> 4]
TsigRec == [Rrtype |-> TypeTSIG, Rdata |-> 0]

NoMAC == << >>

(* RR_TSIG, tsig.go:21-32 *)
NewTSIG(alg, olen, odata) ==
    [ Hdr |-> [Name |-> KeyName, Rrtype |-> TypeTSIG, Class |-> 255, Ttl |-> 0],
      Algorithm |-> alg,
      TimeSigned |-> 100,
      Fudge |-> 300,
      MACSize |-> 0,
      MAC |-> NoMAC,
      OrigId |-> 0,
      Error |-> 0,
      OtherLen |-> olen,
      OtherData |-> odata ]

(* tsigWireFmt with the TimeSigned assignment (tsig.go:129) left out *)
tsigWireFmt_NoTime(r) ==
    [ Name |-> r.Hdr.Name,
      Class |-> r.Hdr.Class,
      Ttl |-> r.Hdr.Ttl,
      Algorithm |-> r.Algorithm,
      TimeSigned |-> 0,
      Fudge |-> r.Fudge,
      Error |-> r.Error,
      OtherLen |-> r.OtherLen,
      OtherData |-> r.OtherData ]

(* tsigWireFmt, tsig.go:52-65, filled as tsigToBuf fills it (124-133) *)
tsigWireFmt(r) ==
    [ Name |-> r.Hdr.Name,
      Class |-> r.Hdr.Class,
      Ttl |-> r.Hdr.Ttl,
      Algorithm |-> r.Algorithm,
      TimeSigned |-> r.TimeSigned,
      Fudge |-> r.Fudge,
      Error |-> r.Error,
      OtherLen |-> r.OtherLen,
      OtherData |-> r.OtherData ]

(* ------------------------------------------------------------------ *)
(* Serialization (msg.go: packDomainName, packStruct, Msg.Pack)        *)
(* ------------------------------------------------------------------ *)
NameCode(s) ==
    CASE s = KeyName -> 1
      [] s = HmacMD5 -> 2
      [] s = HmacSHA1 -> 3
      [] s = HmacSHA256 -> 4
      [] OTHER -> 5

(* one label of one octet, then the root label; no compression *)
packDomainName(s) == << 1, NameCode(s), 0 >>

PackFail == [ok |-> FALSE, buf |-> << >>]

(* packStruct(tsig, buf, 0) followed by buf[:n] *)
packStruct(t) ==
    LET b == packDomainName(t.Name)
             \o BigEndian(t.Class, 2)
             \o BigEndian(t.Ttl, 4)
             \o packDomainName(t.Algorithm)
             \o BigEndian(t.TimeSigned, 8)
             \o BigEndian(t.Fudge, 2)
             \o BigEndian(t.Error, 2)
             \o BigEndian(t.OtherLen, 2)
             \o t.OtherData
    IN  IF t.OtherLen # Len(t.OtherData) \/ Len(b) > BufSize THEN PackFail
        ELSE [ok |-> TRUE, buf |-> b]

(* a whole TSIG record, as Msg.Pack writes the one attached to Extra *)
packTSIG(r) ==
    LET b == packDomainName(r.Hdr.Name)
             \o BigEndian(r.Hdr.Rrtype, 2)
             \o BigEndian(r.Hdr.Class, 2)
             \o BigEndian(r.Hdr.Ttl, 4)
             \o packDomainName(r.Algorithm)
             \o BigEndian(r.TimeSigned, 8)
             \o BigEndian(r.Fudge, 2)
             \o BigEndian(r.MACSize, 2)
             \o r.MAC
             \o BigEndian(r.OrigId, 2)
             \o BigEndian(r.Error, 2)
             \o BigEndian(r.OtherLen, 2)
             \o r.OtherData
    IN  IF r.OtherLen # Len(r.OtherData) \/ r.MACSize # Len(r.MAC) THEN PackFail
        ELSE [ok |-> TRUE, buf |-> b]

packRR(e, r) ==
    IF e.Rrtype = TypeTSIG THEN packTSIG(r)
    ELSE [ok |-> TRUE, buf |-> BigEndian(e.Rrtype, 2) \o << e.Rdata >>]

RECURSIVE packRRs(_, _)
packRRs(es, r) ==
    IF es = << >> THEN [ok |-> TRUE, buf |-> << >>]
    ELSE LET h == packRR(Head(es), r)
             t == packRRs(Tail(es), r)
         IN  IF h.ok /\ t.ok THEN [ok |-> TRUE, buf |-> h.buf \o t.buf]
             ELSE PackFail

(* msg.Pack(): header id, question, count of additional records, records *)
Pack(m, r) ==
    LET x == packRRs(m.Extra, r)
    IN  IF ~x.ok THEN PackFail
        ELSE [ok |-> TRUE,
              buf |-> BigEndian(m.MsgHdr.Id, 2) \o << m.Question >>
                      \o BigEndian(Len(m.Extra), 2) \o x.buf]

(* ------------------------------------------------------------------ *)
(* tsigToBuf, tsig.go:121-147                                          *)
(* ------------------------------------------------------------------ *)
(* tsigToBuf with line 144 written as append(buf, msgbuf...) *)
tsigToBuf_TsigFirst(r, m) ==
    LET p == packStruct(tsigWireFmt(r))
        msgbuf == Pack(m, r)
    IN  IF ~p.ok THEN PackFail
        ELSE IF ~msgbuf.ok THEN PackFail
        ELSE [ok |-> TRUE, buf |-> p.buf \o msgbuf.buf]

tsigToBuf(r, m) ==
    LET p == packStruct(tsigWireFmt(r))
        msgbuf == Pack(m, r)
    IN  IF ~p.ok THEN PackFail
        ELSE IF ~msgbuf.ok THEN PackFail
        ELSE [ok |-> TRUE, buf |-> msgbuf.buf \o p.buf]

(* ------------------------------------------------------------------ *)
(* hmac.NewMD5(key); io.WriteString(h, buf); h.Sum()                   *)
(* The digest is kept symbolic and collision free: it is the pair      *)
(* (key, buf), written as a length-prefixed key followed by buf.       *)
(* ------------------------------------------------------------------ *)
hmacMD5(key, buf) == << Len(key) >> \o key \o buf

MacKey(mac) == SubSeq(mac, 2, 1 + mac[1])
MacBuf(mac) == SubSeq(mac, 2 + mac[1], Len(mac))

(* ------------------------------------------------------------------ *)
(* RR_TSIG.Generate, tsig.go:72-84                                     *)
(* ------------------------------------------------------------------ *)
GenerateResult(r, m, secret) ==
    LET rawsecret == unpackBase64(secret)
        b == tsigToBuf(r, m)
    IN  IF ~b.ok THEN
            [ret |-> FALSE, rr |-> r, calls |-> {"unpackBase64", "tsigToBuf"}]
        ELSE
            LET mac == hmacMD5(rawsecret, b.buf)
            IN  [ret |-> TRUE,
                 rr |-> [r EXCEPT !.MAC = mac,
                                  !.MACSize = Uint16(Len(mac)),
                                  !.OrigId = m.MsgHdr.Id],
                 calls |-> {"unpackBase64", "tsigToBuf", "hmac"}]

(* ------------------------------------------------------------------ *)
(* RR_TSIG.Verify, tsig.go:90-119.  msg2 := msg copies the pointer, so *)
(* the writes to msg2 at lines 109-110 are writes to the caller's Msg. *)
(* ------------------------------------------------------------------ *)
Strip(extra) == SubSeq(extra, 1, Len(extra) - 1)

(* the test of line 105 left out *)
NotTSIG_Unchecked(extra) == FALSE

(* tsigrr := msg2.Extra[len-1]; tsigrr.Header().Rrtype != TypeTSIG *)
NotTSIG(extra) == extra[Len(extra)].Rrtype # TypeTSIG

VerifyResult(r, m, secret) ==
    LET rawsecret == packBase64(secret)
    IN  IF rawsecret.err THEN
            [ret |-> FALSE, msg |-> m, calls |-> {"packBase64"}]
        ELSE IF Len(m.Extra) < 1 THEN
            [ret |-> FALSE, msg |-> m, calls |-> {"packBase64"}]
        ELSE IF NotTSIG(m.Extra) THEN
            [ret |-> FALSE, msg |-> m, calls |-> {"packBase64"}]
        ELSE
            LET msg2 == [m EXCEPT !.MsgHdr.Id = r.OrigId,
                                  !.Extra = Strip(m.Extra)]
                b == tsigToBuf(r, msg2)
            IN  IF ~b.ok THEN
                    [ret |-> FALSE, msg |-> msg2,
                     calls |-> {"packBase64", "tsigToBuf"}]
                ELSE
                    [ret |-> hmacMD5(rawsecret.val, b.buf) = r.MAC,
                     msg |-> msg2,
                     calls |-> {"packBase64", "tsigToBuf", "hmac"}]

(* ------------------------------------------------------------------ *)
(* State                                                               *)
(* ------------------------------------------------------------------ *)
VARIABLES
    msg,      \* the caller's Msg: MsgHdr.Id, Question, Extra
    rr,       \* the caller's RR_TSIG
    last,     \* the last call made: operation and secret passed
    result,   \* what the last Generate or Verify returned
    calls,    \* the functions the last Generate or Verify called
    signed,   \* msg, rr and secret of the successful Generate
    nSet      \* number of field rewrites made

vars == << msg, rr, last, result, calls, signed, nSet >>

NoSecret == << >>
NotSigned == [secret |-> NoSecret, msg |-> << >>, rr |-> << >>, done |-> FALSE]

Init ==
    /\ msg = [MsgHdr |-> [Id |-> 1000], Question |-> 1, Extra |-> << >>]
    /\ \E alg \in Algorithms, o \in InitialOther : rr = NewTSIG(alg, o[1], o[2])
    /\ last = [op |-> "new", secret |-> NoSecret]
    /\ result = FALSE
    /\ calls = {}
    /\ signed = NotSigned
    /\ nSet = 0

(* A record is signed again only while it is not attached to the message: *)
(* Pack of a message that carries the record serializes the old MAC, so   *)
(* signing it again and again would nest MACs without limit.              *)
Generate(secret) ==
    /\ rr.MAC = NoMAC \/ \A i \in 1..Len(msg.Extra) : msg.Extra[i] # TsigRec
    /\ LET g == GenerateResult(rr, msg, secret)
       IN  /\ rr' = g.rr
           /\ result' = g.ret
           /\ calls' = g.calls
           /\ signed' = IF g.ret
                        THEN [secret |-> secret, msg |-> msg, rr |-> g.rr, done |-> TRUE]
                        ELSE signed
    /\ last' = [op |-> "Generate", secret |-> secret]
    /\ UNCHANGED << msg, nSet >>

Verify(secret) ==
    /\ LET v == VerifyResult(rr, msg, secret)
       IN  /\ msg' = v.msg
           /\ result' = v.ret
           /\ calls' = v.calls
    /\ last' = [op |-> "Verify", secret |-> secret]
    /\ UNCHANGED << rr, signed, nSet >>

(* The caller appends the signed record to the additional section. *)
Attach ==
    /\ Len(msg.Extra) < MaxExtra
    /\ msg' = [msg EXCEPT !.Extra = Append(@, TsigRec)]
    /\ last' = [op |-> "caller", secret |-> NoSecret]
    /\ result' = FALSE
    /\ calls' = {}
    /\ UNCHANGED << rr, signed, nSet >>

(* The caller appends some other record to the additional section. *)
AttachOther ==
    /\ Len(msg.Extra) < MaxExtra
    /\ msg' = [msg EXCEPT !.Extra = Append(@, ARec)]
    /\ last' = [op |-> "caller", secret |-> NoSecret]
    /\ result' = FALSE
    /\ calls' = {}
    /\ UNCHANGED << rr, signed, nSet >>

Rewrite(newmsg, newrr) ==
    /\ nSet < MaxSet
    /\ << newmsg, newrr >> # << msg, rr >>
    /\ msg' = newmsg
    /\ rr' = newrr
    /\ last' = [op |-> "caller", secret |-> NoSecret]
    /\ result' = FALSE
    /\ calls' = {}
    /\ nSet' = nSet + 1
    /\ UNCHANGED signed

SetId == \E id \in Ids : Rewrite([msg EXCEPT !.MsgHdr.Id = id], rr)

SetQuestion == \E q \in Questions : Rewrite([msg EXCEPT !.Question = q], rr)

SetTimeSigned == \E t \in Times : Rewrite(msg, [rr EXCEPT !.TimeSigned = t])

SetError == \E e \in Errors : Rewrite(msg, [rr EXCEPT !.Error = e])

SetOtherData == \E d \in OtherDatas : Rewrite(msg, [rr EXCEPT !.OtherData = d])

Next ==
    \/ \E s \in Secrets : Generate(s)
    \/ \E s \in Secrets : Verify(s)
    \/ Attach
    \/ AttachOther
    \/ SetId
    \/ SetQuestion
    \/ SetTimeSigned
    \/ SetError
    \/ SetOtherData

Spec == Init /\ [][Next]_vars

(* ================================================================== *)
(* Properties                                                          *)
(* ================================================================== *)

(* A step of the behaviour that is the call Verify(m, r, s), and one     *)
(* that is the call Generate(m, r, s).                                   *)
VerifyStep(s) == last' = [op |-> "Verify", secret |-> s] /\ Verify(s)

GenerateStep(s) == last' = [op |-> "Generate", secret |-> s] /\ Generate(s)

(* The record still carries what Generate wrote, it was signed with    *)
(* secret s, and it is the last entry of the additional section.       *)
SignedWith(s) ==
    /\ signed.done
    /\ signed.secret = s
    /\ rr.MAC = signed.rr.MAC
    /\ rr.MACSize = signed.rr.MACSize
    /\ rr.OrigId = signed.rr.OrigId

TsigAttached ==
    /\ Len(msg.Extra) >= 1
    /\ msg.Extra[Len(msg.Extra)] = TsigRec

(* The message is the signed one with the record appended, nothing else *)
(* changed.                                                             *)
AsSigned(s) ==
    /\ SignedWith(s)
    /\ rr = signed.rr
    /\ msg = [signed.msg EXCEPT !.Extra = Append(@, TsigRec)]

(* Generate and Verify derive the same raw key from this secret. *)
SameKey(s) == ~packBase64(s).err /\ unpackBase64(s) = packBase64(s).val

(* C1: round trip.  When Generate(m, r, s) succeeded with a valid base64 *)
(* secret s and r was appended as the last additional record, with       *)
(* nothing else changed, Verify(m, r, s) accepts.                        *)
C1_RoundTrip ==
    [][\A s \in Secrets :
          (VerifyStep(s) /\ ValidSecret(s) /\ AsSigned(s)) => result']_vars

(* C2: Verify leaves the caller's message as it was, whatever it returns: *)
(* same header id, same additional records in the same order.             *)
C2_VerifyLeavesMessage ==
    [][\A s \in Secrets : VerifyStep(s) => msg' = msg]_vars

(* C3: tamper sensitivity.  After a successful Generate(m, r, s) with r   *)
(* attached last, once the message body (question or the records before   *)
(* the signature), r.TimeSigned, r.Error or r.OtherData differs from what *)
(* was signed, Verify(m, r, s) rejects.                                   *)
Tampered ==
    \/ msg.Question # signed.msg.Question
    \/ Strip(msg.Extra) # signed.msg.Extra
    \/ rr.TimeSigned # signed.rr.TimeSigned
    \/ rr.Error # signed.rr.Error
    \/ rr.OtherData # signed.rr.OtherData

C3_TamperRejected ==
    [][\A s \in Secrets :
          (VerifyStep(s) /\ SignedWith(s) /\ TsigAttached /\ Tampered)
              => ~result']_vars

(* a Verify that got as far as comparing digests, with the key Generate   *)
(* used, rejected a record whose TimeSigned was changed after signing     *)
C3_Witness ==
    /\ last.op = "Verify"
    /\ SignedWith(last.secret)
    /\ SameKey(last.secret)
    /\ "hmac" \in calls
    /\ rr.TimeSigned # signed.rr.TimeSigned
    /\ ~result

(* C4: wrong secret.  Signed with valid secret A, verified with a valid   *)
(* secret B # A, nothing else changed: Verify rejects.                    *)
C4_WrongSecretRejected ==
    [][\A b \in Secrets :
          (VerifyStep(b) /\ ValidSecret(b) /\ ValidSecret(signed.secret)
             /\ b # signed.secret /\ AsSigned(signed.secret)) => ~result']_vars

(* C5: original-id restoration.  Signed with a valid secret s while the   *)
(* header id was x, r attached last, and only the header id rewritten to  *)
(* y # x: Verify(m, r, s) accepts.                                        *)
C5_IdRewriteAccepted ==
    [][\A s \in Secrets :
          (VerifyStep(s) /\ ValidSecret(s) /\ SignedWith(s) /\ rr = signed.rr
             /\ msg.MsgHdr.Id # signed.msg.MsgHdr.Id
             /\ [msg EXCEPT !.MsgHdr.Id = signed.msg.MsgHdr.Id]
                  = [signed.msg EXCEPT !.Extra = Append(@, TsigRec)])
              => result']_vars

(* C6: missing or misplaced signature.  When the additional section is    *)
(* empty or its last record is not a TSIG, Verify rejects and neither     *)
(* tsigToBuf nor the digest is called.                                    *)
C6_MissingSignatureRejected ==
    [][\A s \in Secrets :
          (VerifyStep(s) /\ ~TsigAttached)
              => (~result' /\ calls' \cap {"tsigToBuf", "hmac"} = {})]_vars

(* Verify, given a valid secret, returned at the record-type test *)
C6_Witness ==
    /\ last.op = "Verify"
    /\ ValidSecret(last.secret)
    /\ Len(msg.Extra) >= 1
    /\ msg.Extra[Len(msg.Extra)] # TsigRec
    /\ calls = {"packBase64"}
    /\ ~result

(* C7: effect and frame of Generate.  After a successful Generate the MAC *)
(* is the digest of Pack(msg) followed by the serialized projection of r  *)
(* (which leaves out MACSize, MAC and OrigId), MACSize is the length of   *)
(* the MAC, OrigId is the header id, and the message and the other fields *)
(* of r are as before; the record is not appended.                        *)
CanonicalFields(r) ==
    packDomainName(r.Hdr.Name) \o BigEndian(r.Hdr.Class, 2)
    \o BigEndian(r.Hdr.Ttl, 4) \o packDomainName(r.Algorithm)
    \o BigEndian(r.TimeSigned, 8) \o BigEndian(r.Fudge, 2)
    \o BigEndian(r.Error, 2) \o BigEndian(r.OtherLen, 2) \o r.OtherData

C8_GenerateRejectsBadSecret ==
    (last.op = "Generate" /\ ~ValidSecret(last.secret)) => ~result

(* C9: algorithm dispatch.  With an AlgorithmName that is not a recognized *)
(* algorithm, Generate fails and Verify rejects.                           *)
C9_UnknownAlgorithmFails ==
    (last.op \in {"Generate", "Verify"} /\ rr.Algorithm \notin RecognizedAlgorithms)
        => ~result

(* C10: Verify is repeatable.  A Verify called right after a Verify with   *)
(* the same secret returns what the first one returned.                    *)
C10_VerifyRepeatable ==
    [][\A s \in Secrets :
          (VerifyStep(s) /\ last = [op |-> "Verify", secret |-> s])
              => result' = result]_vars

====
